---- MODULE Spec2Model ----
(***************************************************************************)
(* The temporal training / validation protocol of main.py: the selective   *)
(* state masking helpers, the per-batch training loop with its seam step,  *)
(* the streaming validator and the learning-rate schedule.                  *)
(*                                                                         *)
(* Tensors are functions over the batch lanes 0..B-1.  The predictor, the  *)
(* cross-entropy criteria and the data loaders are collaborators outside   *)
(* the file: their results are drawn from small sets.  Quotients (the      *)
(* learning rate, the normalised totals) are kept exactly, as records      *)
(* [num, den].                                                             *)
(***************************************************************************)
EXTENDS Integers, Sequences, FiniteSets

\* ---------------------------------------------------------------- config
\* command line options (argparse, main.py:21-43), fixed for the model
B == 2
\* --mu, --tau, --pi: the three loss multipliers
Mu == 1
Tau == 2
Pi == 3
\* --log-interval
log_interval == 1
\* --lr as the fraction LrNum / LrDen, --lr-decay D E
LrNum == 1
LrDen == 10
D == 10
E == 2
\* optim.SGD(params=model.parameters(), ...) builds one parameter group
NGroups == 1

\* ---------------------------------------------------------------- bounds
\* --big-t ranges over 1..MaxT; the run that follows the learning-rate
\* schedule has ScheduleEpochs epochs
MaxT == 2
ScheduleEpochs == 6
\* physical batches one training epoch pulls at most
MaxBatches == 2
\* batches (rows) the validation loader yields at most
MaxVal == 3
\* layers per list of a state store
MaxLayers == 1
\* selective_cross_entropy calls made on one set of running totals
MaxCalls == 3

Lanes == 0 .. (B - 1)
\* the labels of the data, the values a criterion returns, the values of a
\* lane of a fresh state
Labels == {1, 2}
LossVals == {1, 2}
StateVals == {1}
Modes == {"MatchNet", "TempoNet"}
Archs == {"flat", "pair"}

\* --------------------------------------------------------------- tensors
\* a ByteTensor of flags, as the comparison y[t + 1] != y[t] builds it
Neq(a, b) == [l \in Lanes |-> IF a[l] # b[l] THEN 1 ELSE 0]

\* ByteTensor addition, mismatch + previous_mismatch
ByteAdd_First(a, b) == a

ByteAdd(a, b) == [l \in Lanes |-> (a[l] + b[l]) % 256]

\* new.any()
any(new) == \E l \in Lanes : new[l] # 0

\* new.nonzero().squeeze(1): the indices of the non-zero entries
Nonzero(new) == {l \in Lanes : new[l] # 0}

\* torch.ByteTensor(args.batch_size).fill_(1)
Ones == [l \in Lanes |-> 1]
Zeros == [l \in Lanes |-> 0]

\* a state tensor: its values, whether it carries backpropagation history,
\* and the gradient hooks registered on it (each the set of lanes it zeroes)
Tensor(d, h) == [data |-> d, hist |-> h, hooks |-> <<>>]

\* tensor.index_fill(0, b, 0): a new tensor, lanes b zeroed
IndexFill(ten, b) ==
  [data |-> [l \in Lanes |-> IF l \in b THEN 0 ELSE ten.data[l]],
   hist |-> ten.hist, hooks |-> <<>>]

\* tensor.register_hook(lambda g: g.index_fill(0, b, 0))
RegisterHook(ten, b) == [ten EXCEPT !.hooks = Append(@, b)]

\* for layer in range(len(s)): s[layer] = s[layer].index_fill(0, V(b), 0)
FillLayers(s, b) == [i \in 1 .. Len(s) |-> IndexFill(s[i], b)]

\* for layer in range(len(s)): s[layer].register_hook(...)
HookLayers(s, b) == [i \in 1 .. Len(s) |-> RegisterHook(s[i], b)]

\* the state store: None, a list of layer tensors ("flat", in a), or a pair
\* of two such lists ("pair", in a and b)
None == [kind |-> "none", a |-> <<>>, b |-> <<>>]
Truthy(s) == s.kind # "none"

\* the pair treated as a flat list: only the first list is masked
SelectiveZero_FirstList(s, new, forward) ==
  IF ~any(new) THEN s
  ELSE IF forward
       THEN [s EXCEPT !.a = FillLayers(@, Nonzero(new))]
       ELSE [s EXCEPT !.a = HookLayers(@, Nonzero(new))]

\* selective_zero(s, new, forward): s[0] a list selects the pair branch
SelectiveZero(s, new, forward) ==
  IF ~any(new) THEN s
  ELSE IF forward
       THEN IF s.kind = "pair"
            THEN [s EXCEPT !.a = FillLayers(@, Nonzero(new)),
                           !.b = FillLayers(@, Nonzero(new))]
            ELSE [s EXCEPT !.a = FillLayers(@, Nonzero(new))]
       ELSE IF s.kind = "pair"
            THEN [s EXCEPT !.a = HookLayers(@, Nonzero(new)),
                           !.b = HookLayers(@, Nonzero(new))]
            ELSE [s EXCEPT !.a = HookLayers(@, Nonzero(new))]

\* the whole tensor copied as soon as one lane is flagged
SelectiveMatch_All(x_hat, x, new) ==
  IF any(new) THEN x ELSE x_hat

\* selective_match(x_hat, x, new): x_hat[bb].copy_(x[bb]) for bb in b
SelectiveMatch(x_hat, x, new) ==
  IF any(new)
  THEN [l \in Lanes |-> IF l \in Nonzero(new) THEN x[l] ELSE x_hat[l]]
  ELSE x_hat

\* one decision counted per call, whatever the number of selected lanes
SelectiveCrossEntropy_One(new, count, lossval) ==
  IF ~any(new)
  THEN [ret |-> 0, ce_count |-> count]
  ELSE [ret |-> lossval, ce_count |-> count + 1]

\* the early return dropped: the criterion's value is returned in every case
SelectiveCrossEntropy_NoGuard(new, count, lossval) ==
  [ret |-> lossval, ce_count |-> count + Cardinality(Nonzero(new))]

\* selective_cross_entropy(logits, y, new, loss, count); lossval is what the
\* criterion returns for the selected lanes
SelectiveCrossEntropy(new, count, lossval) ==
  IF ~any(new)
  THEN [ret |-> 0, ce_count |-> count]
  ELSE [ret |-> lossval, ce_count |-> count + Cardinality(Nonzero(new))]

RECURSIVE SumSq(_, _, _)
SumSq(a, b, n) ==
  IF n = 0 THEN 0
  ELSE (a[n - 1] - b[n - 1]) * (a[n - 1] - b[n - 1]) + SumSq(a, b, n - 1)

\* nn.MSELoss(): the mean over the lanes of the squared difference (frame
\* values are even, so with B = 2 the mean is a whole number)
MSE(a, b) == SumSq(a, b, B) \div B

\* repackage_state(h): None stays None, every tensor becomes V(h.data)
\* the tensor handed back as it is, history included
Detach_KeepHistory(ten) == ten

\* V(h.data)
Detach(ten) == [data |-> ten.data, hist |-> FALSE, hooks |-> <<>>]

\* list(repackage_state(v) for v in h)
DetachLayers(s) == [i \in 1 .. Len(s) |-> Detach(s[i])]

\* the store handed back as it is
repackage_state_Identity(h) == h

\* nothing carried over: the store dropped
repackage_state_Drop(h) == None

repackage_state(h) ==
  IF ~Truthy(h) THEN None
  ELSE [kind |-> h.kind, a |-> DetachLayers(h.a), b |-> DetachLayers(h.b)]

RECURSIVE Pow(_, _)
Pow(b, n) == IF n = 0 THEN 1 ELSE b * Pow(b, n - 1)

\* the remainder taken for the quotient
LearningRate_Mod(ep) == [num |-> LrNum, den |-> LrDen * Pow(D, ep % E)]

\* lr = args.lr * (d ** -(epoch // e))
LearningRate(ep) == [num |-> LrNum, den |-> LrDen * Pow(D, ep \div E)]


\* ------------------------------------------------------------- variables
VARIABLES
  \* the helper functions called on their own
  u_op,        \* the call: its name, its arguments and, once made, its results
  u_total,     \* the running totals a sequence of selective_cross_entropy calls updates
  u_calls,     \* calls made since the totals were reset, with what they selected
  \* the run of main()
  pc,          \* where the run stands
  err,         \* the exception that ended the run, "" while it runs
  mode,        \* args.mode
  arch,        \* the shape of the state the chosen Model returns
  big_t,       \* args.big_t
  epochs,      \* args.epochs
  epoch,       \* the epoch loop's index
  param_groups,      \* optimiser.param_groups: the rate of each group
  rows,        \* time steps the loader being iterated has yielded so far
  more,        \* whether that loader can yield another batch
  batch_nb,    \* enumerate()'s index of the batch in hand, -1 before the first
  x, y,        \* the batch in hand: frames and labels, one row per time step
  from_past,   \* the seam: (x[-1], y[-1]) of the batch before, or NoSeam
  state,       \* the carried state store
  previous_mismatch,
  mismatch,
  t,           \* the interior loop's index
  total_loss,  \* the five running totals
  loss,        \* the batch loss: the int 0 until a step adds a tensor to it
  x_hat_data,  \* the last interior step's predicted frame
  call,        \* the last predictor step: its arguments, locals and results
  steps,       \* predictor steps made for the batch in hand
  grads,       \* the model's gradients: "stale", "zero" or "fresh"
  nb_updates,  \* optimiser steps taken in this epoch
  report,      \* what the logging of the batch in hand printed
  trace,       \* the steps of the validation run: lanes selected, selective loss
  val_loss     \* what validate returned

uvars == <<u_op, u_total, u_calls>>
cfgvars == <<mode, arch, big_t, epochs>>
mvars == <<pc, err, mode, arch, big_t, epochs, epoch, param_groups, rows, more, batch_nb, x, y,
           from_past, state, previous_mismatch, mismatch, t, total_loss, loss,
           x_hat_data, call, steps, grads, nb_updates, report, trace, val_loss>>
vars == <<u_op, u_total, u_calls, pc, err, mode, arch, big_t, epochs, epoch, param_groups, rows,
          more, batch_nb, x, y, from_past, state, previous_mismatch, mismatch, t,
          total_loss, loss, x_hat_data, call, steps, grads, nb_updates, report, trace,
          val_loss>>

\* ------------------------------------------------------- initial values
\* total_loss = {'mse': 0, 'ce': 0, 'ce_count': 0, 'per_ce': 0, 'rpl': 0}
ZeroTotal == [mse |-> 0, ce |-> 0, ce_count |-> 0, per_ce |-> 0, rpl |-> 0]

\* from_past = None
NoSeam == [set |-> FALSE, x |-> Zeros, y |-> Zeros]

\* loss = 0
IntZero == [tensor |-> FALSE, v |-> 0]

NoCall ==
  [kind |-> "none", x_ |-> Zeros, next_x |-> Zeros, y_ |-> Zeros, periodic |-> FALSE,
   mismatch |-> Zeros, reset |-> Zeros, state_in |-> None, raw_state |-> None,
   raw_x_hat |-> Zeros, x_hat |-> Zeros, mse |-> 0, ce |-> 0, per |-> 0, rpl |-> 0]

Frac(n, d) == [num |-> n, den |-> d]
NoReport ==
  [set |-> FALSE, mse |-> Frac(0, 1), rpl |-> Frac(0, 1), per_ce |-> Frac(0, 1),
   ce |-> Frac(0, 1), ce_count |-> 0]

\* the locals of train() and validate(), before the function is entered and
\* after it has returned
NoLocals ==
  /\ rows = 0 /\ more = TRUE /\ batch_nb = -1
  /\ x = <<>> /\ y = <<>>
  /\ from_past = NoSeam
  /\ state = None
  /\ previous_mismatch = Ones /\ mismatch = Zeros
  /\ t = 0
  /\ total_loss = ZeroTotal
  /\ loss = IntZero
  /\ x_hat_data = Zeros
  /\ call = NoCall
  /\ steps = 0
  /\ report = NoReport
  /\ trace = <<>>

MainIdle ==
  /\ err = "" /\ mode = "MatchNet" /\ arch = "flat" /\ big_t = 1 /\ epochs = 0
  /\ epoch = 0
  /\ param_groups = [g \in 1 .. NGroups |-> Frac(LrNum, LrDen)]
  /\ NoLocals
  /\ grads = "stale" /\ nb_updates = 0
  /\ val_loss = NoReport

UnitIdle ==
  /\ u_op = [name |-> "none", done |-> FALSE, s |-> None, new |-> Zeros, forward |-> TRUE,
             x_hat |-> Zeros, x |-> Zeros, out_s |-> None, out_x |-> Zeros, ret |-> 0]
  /\ u_total = [ce |-> 0, ce_count |-> 0]
  /\ u_calls = [n |-> 0, selected |-> 0, losses |-> 0]

\* --------------------------------------------------- the helpers on their own
Flags == [Lanes -> {0, 1}]
FlagSums == [Lanes -> 0 .. 2]
UTensors == {Tensor(d, TRUE) : d \in [Lanes -> {0} \cup StateVals]}
LayerLists == UNION {[1 .. n -> UTensors] : n \in 1 .. MaxLayers}
Stores ==
  {[kind |-> "flat", a |-> la, b |-> <<>>] : la \in LayerLists}
  \cup {[kind |-> "pair", a |-> la, b |-> lb] : la \in LayerLists, lb \in LayerLists}
UFrames == [Lanes -> {0, 2}]

\* what train() can hold in state when it detaches it: None, or a store with
\* history, with or without gradient hooks on its tensors
CarriedStores ==
  {None} \cup Stores \cup {SelectiveZero(s, new, FALSE) : s \in Stores, new \in Flags}

Call(name, s, new, forward, x_hat, next_x) ==
  [name |-> name, done |-> FALSE, s |-> s, new |-> new, forward |-> forward,
   x_hat |-> x_hat, x |-> next_x, out_s |-> s, out_x |-> x_hat, ret |-> 0]

ZeroTotals == [ce |-> 0, ce_count |-> 0]

InitUnit ==
  /\ u_op \in
       {Call("selective_zero", s, new, f, Zeros, Zeros) :
          s \in Stores, new \in Flags, f \in BOOLEAN}
       \cup {Call("selective_match", None, new, TRUE, xh, xn) :
          new \in FlagSums, xh \in UFrames, xn \in UFrames}
       \cup {Call("selective_cross_entropy", None, Zeros, TRUE, Zeros, Zeros)}
       \cup {Call("repackage_state", s, Zeros, TRUE, Zeros, Zeros) : s \in CarriedStores}
  /\ u_total = ZeroTotals
  /\ u_calls = [n |-> 0, selected |-> 0, losses |-> 0]
  /\ pc = "unit"
  /\ MainIdle

\* selective_zero(s, new, forward) on a store the caller holds
CallSelectiveZero ==
  /\ u_op.name = "selective_zero" /\ ~u_op.done
  /\ u_op' = [u_op EXCEPT !.done = TRUE,
                          !.out_s = SelectiveZero(u_op.s, u_op.new, u_op.forward)]
  /\ UNCHANGED <<u_total, u_calls>>
  /\ UNCHANGED mvars

\* selective_match(x_hat, x, new) on the predicted tensor
CallSelectiveMatch ==
  /\ u_op.name = "selective_match" /\ ~u_op.done
  /\ u_op' = [u_op EXCEPT !.done = TRUE,
                          !.out_x = SelectiveMatch(u_op.x_hat, u_op.x, u_op.new)]
  /\ UNCHANGED <<u_total, u_calls>>
  /\ UNCHANGED mvars

\* ce_loss = selective_cross_entropy(idx, y, mismatch, nll_final, total_loss)
\* total_loss['ce'] += ce_loss.data[0]
CallSelectiveCrossEntropy ==
  /\ u_op.name = "selective_cross_entropy"
  /\ u_calls.n < MaxCalls
  /\ \E new \in Flags : \E lossval \in LossVals :
       LET r == SelectiveCrossEntropy(new, u_total.ce_count, lossval) IN
       /\ u_op' = [u_op EXCEPT !.done = TRUE, !.new = new, !.ret = r.ret]
       /\ u_total' = [ce |-> u_total.ce + r.ret, ce_count |-> r.ce_count]
       /\ u_calls' = [n |-> u_calls.n + 1,
                      selected |-> u_calls.selected + Cardinality(Nonzero(new)),
                      losses |-> u_calls.losses + (IF any(new) THEN lossval ELSE 0)]
  /\ UNCHANGED mvars

\* state = repackage_state(state), on what the call before it returned
CallRepackageState ==
  /\ u_op.name = "repackage_state"
  /\ u_calls.n < MaxCalls
  /\ u_op' = [u_op EXCEPT !.done = TRUE, !.out_s = repackage_state(u_op.out_s)]
  /\ u_calls' = [u_calls EXCEPT !.n = @ + 1]
  /\ UNCHANGED u_total
  /\ UNCHANGED mvars

NextUnit ==
  \/ CallSelectiveZero
  \/ CallSelectiveMatch
  \/ CallSelectiveCrossEntropy
  \/ CallRepackageState

SpecUnit == InitUnit /\ [][NextUnit]_vars


\* ------------------------------------------- load_state_dict on its own
\* parameter names, as the parts between the dots: conv.weight, ...
ParamNames == {<<"conv", "weight">>, <<"linear", "weight">>, <<"stabiliser", "weight">>}

\* a checkpoint key: 'module.inner_model.' in front of a parameter name
CheckpointKey(name) == <<"module.inner_model.">> \o name

\* name[19:]: the name without its first 19 characters
StripPrefix(key) == Tail(key)

\* name.startswith('stabiliser')
IsStabiliser(name) == name[1] = "stabiliser"

\* the lists of distinct parameter names: the orders a checkpoint can have
RECURSIVE Orders(_)
Orders(names) ==
  {<<>>} \cup UNION {{<<n>> \o rest : rest \in Orders(names \ {n})} : n \in names}

\* the names of the checkpoint, prefix stripped
CheckpointNames(state_dict) == {StripPrefix(state_dict[i].key) : i \in 1 .. Len(state_dict)}

\* load_state_dict(model, dict_33): the live model holds 0 everywhere, the
\* checkpoint 1
InitLoad ==
  /\ \E own \in (SUBSET ParamNames) \ {{}} : \E order \in Orders(ParamNames) :
       u_op = [name |-> "load_state_dict", at |-> "for", i |-> 1,
               state_dict |-> [i \in 1 .. Len(order) |->
                                 [key |-> CheckpointKey(order[i]), param |-> 1]],
               live |-> own,
               own_state |-> [n \in own |-> 0],
               raised |-> "", named |-> {}]
  /\ u_total = ZeroTotals
  /\ u_calls = [n |-> 0, selected |-> 0, losses |-> 0]
  /\ pc = "unit"
  /\ MainIdle

\* one pass of: for name, param in state_dict.items()
LoadItem ==
  /\ u_op.name = "load_state_dict" /\ u_op.at = "for"
  /\ u_op.i <= Len(u_op.state_dict)
  /\ LET name == StripPrefix(u_op.state_dict[u_op.i].key)
         param == u_op.state_dict[u_op.i].param
     IN
     u_op' = IF name \notin DOMAIN u_op.own_state
             THEN [u_op EXCEPT !.at = "raised", !.raised = "unexpected key",
                               !.named = {name}]
             ELSE IF IsStabiliser(name)
             THEN [u_op EXCEPT !.i = @ + 1]
             ELSE [u_op EXCEPT !.i = @ + 1, !.own_state[name] = param]
  /\ UNCHANGED <<u_total, u_calls>>
  /\ UNCHANGED mvars

\* after the loop: missing = set(own_state.keys()) - set(k[19:] for k in keys)
LoadMissing ==
  /\ u_op.name = "load_state_dict" /\ u_op.at = "for"
  /\ u_op.i > Len(u_op.state_dict)
  /\ LET missing == DOMAIN u_op.own_state \ CheckpointNames(u_op.state_dict) IN
     u_op' = IF Cardinality(missing) > 0
             THEN [u_op EXCEPT !.at = "raised", !.raised = "missing keys",
                               !.named = missing]
             ELSE [u_op EXCEPT !.at = "returned"]
  /\ UNCHANGED <<u_total, u_calls>>
  /\ UNCHANGED mvars

NextLoad == LoadItem \/ LoadMissing

SpecLoad == InitLoad /\ [][NextLoad]_vars


\* ------------------------------------------------------------ the data
\* the frame of time step r of a stream: every (step, lane) has its own value
FrameOf(r) == [l \in Lanes |-> 2 * (r * B + l) + 2]
LabelRows == [Lanes -> Labels]

\* the predictor, model(V(x_), state_): a predicted frame and a fresh state
\* of the model's shape, with history unless the input was volatile
PredFrames == {Zeros}
FreshData == {[l \in Lanes |-> v] : v \in StateVals}
FreshState(d, hist) ==
  [kind |-> arch,
   a |-> [i \in 1 .. MaxLayers |-> Tensor(d, hist)],
   b |-> IF arch = "pair" THEN [i \in 1 .. MaxLayers |-> Tensor(d, hist)] ELSE <<>>]

Min(a, b) == IF a < b THEN a ELSE b

\* ------------------------------------------------------------- main()
\* the state main() is in when it reaches its epoch loop
Start ==
  /\ UnitIdle
  /\ pc = "epoch"
  /\ err = ""
  /\ epoch = 0
  /\ param_groups = [g \in 1 .. NGroups |-> Frac(LrNum, LrDen)]
  /\ NoLocals
  /\ grads = "stale" /\ nb_updates = 0
  /\ val_loss = NoReport

\* one epoch, every mode and state shape, T up to MaxT
Init ==
  /\ Start
  /\ mode \in Modes
  /\ arch \in Archs
  /\ big_t \in 1 .. MaxT
  /\ epochs = 1

\* one epoch of the scenario T = 3, B = 2
InitScenario ==
  /\ Start
  /\ mode \in Modes
  /\ arch \in Archs
  /\ big_t = 3
  /\ epochs = 1

\* ScheduleEpochs epochs with --lr-decay D E
InitSchedule ==
  /\ Start
  /\ mode = "MatchNet"
  /\ arch = "flat"
  /\ big_t = 2
  /\ epochs = ScheduleEpochs

\* two epochs, every mode and state shape, T = 2
InitEpochs ==
  /\ Start
  /\ mode \in Modes
  /\ arch \in Archs
  /\ big_t = 2
  /\ epochs = 2

\* adjust_learning_rate(opt, epoch)
adjust_learning_rate(ep) == [g \in 1 .. NGroups |-> LearningRate(ep)]

\* for epoch in range(0, args.epochs): adjust the rate, enter train()
StartEpoch ==
  /\ pc = "epoch"
  /\ epoch < epochs
  /\ param_groups' = adjust_learning_rate(epoch)
  /\ rows' = 0 /\ more' = TRUE /\ batch_nb' = -1
  /\ x' = <<>> /\ y' = <<>>
  /\ from_past' = NoSeam
  /\ state' = None
  /\ previous_mismatch' = Ones
  /\ total_loss' = ZeroTotal
  /\ nb_updates' = 0
  /\ pc' = "pull"
  /\ UNCHANGED <<err, epoch, mismatch, t, loss, x_hat_data, call, steps, grads, report,
                 trace, val_loss>>
  /\ UNCHANGED cfgvars /\ UNCHANGED uvars

\* the loop left one interior step early
LoopTop_Short(n, t0) == IF t0 < Min(big_t, n) - 2 THEN "interior" ELSE "zero_grad"

\* where the batch goes after its seam step, or after interior step t0 - 1
LoopTop(n, t0) == IF t0 < Min(big_t, n) - 1 THEN "interior" ELSE "zero_grad"

\* for batch_nb, (x, y) in enumerate(train_loader): a batch of n <= T rows
\* (a short one is the loader's last), then the lines up to the BTT loop
PullBatch ==
  /\ pc = "pull"
  /\ more /\ batch_nb + 1 < MaxBatches
  /\ \E n \in 1 .. big_t : \E ys \in [1 .. n -> LabelRows] :
       /\ x' = [i \in 1 .. n |-> FrameOf(rows + i - 1)]
       /\ y' = ys
       /\ rows' = rows + n
       /\ more' = (n = big_t)
       /\ pc' = IF from_past.set THEN "seam" ELSE LoopTop(n, 0)
  /\ batch_nb' = batch_nb + 1
  /\ state' = repackage_state(state)
  /\ loss' = IntZero
  /\ t' = 0
  /\ steps' = 0
  /\ report' = NoReport
  /\ call' = NoCall
  /\ x_hat_data' = Zeros
  /\ UNCHANGED <<err, epoch, param_groups, from_past, previous_mismatch, mismatch,
                 total_loss, grads, nb_updates, trace, val_loss>>
  /\ UNCHANGED cfgvars /\ UNCHANGED uvars

\* the new state masked with the previous step's mismatch
ForwardMask_Prev(raw_state, mm) == SelectiveZero(raw_state, previous_mismatch, TRUE)

\* selective_zero(state_, mismatch): no state to the future
ForwardMask(raw_state, mm) == SelectiveZero(raw_state, mm, TRUE)

\* compute_loss(x_, next_x, y_, state_, periodic) with the mismatch mm the
\* caller has just set
compute_loss(kind, x_, next_x, y_, periodic, mm) ==
  LET state_in ==
        IF mode = "MatchNet" /\ ~periodic /\ Truthy(state)
        THEN SelectiveZero(state, mm, FALSE)
        ELSE state
  IN
  \E raw_x_hat \in PredFrames : \E d \in FreshData :
  \E lf \in (IF any(mm) THEN LossVals ELSE {0}) :
  \E lp \in (IF periodic THEN LossVals ELSE {0}) :
    LET raw_state == FreshState(d, TRUE)
        reset == ByteAdd(mm, previous_mismatch)
        x_hat == SelectiveMatch(raw_x_hat, next_x, reset)
        mse_loss_ == MSE(x_hat, next_x)
        ce == SelectiveCrossEntropy(mm, total_loss.ce_count, lf)
        rpl == MSE(x_hat, x_)
    IN
    /\ state' = ForwardMask(raw_state, mm)
    /\ previous_mismatch' = mm
    /\ total_loss' = [mse |-> total_loss.mse + mse_loss_,
                      ce |-> total_loss.ce + ce.ret,
                      ce_count |-> ce.ce_count,
                      per_ce |-> total_loss.per_ce + (IF periodic THEN lp ELSE 0),
                      rpl |-> total_loss.rpl + rpl]
    /\ call' = [kind |-> kind, x_ |-> x_, next_x |-> next_x, y_ |-> y_,
                periodic |-> periodic, mismatch |-> mm, reset |-> reset,
                state_in |-> state_in, raw_state |-> raw_state,
                raw_x_hat |-> raw_x_hat, x_hat |-> x_hat,
                mse |-> mse_loss_, ce |-> ce.ret,
                per |-> (IF periodic THEN lp ELSE 0), rpl |-> rpl]

\* the periodic term left out of the batch loss
AddLoss_NoPi(l, c) == [tensor |-> TRUE, v |-> l.v + c.mse * Mu + c.ce * Tau]

\* loss += mse_loss * mu + ce_loss * tau, with ce_loss[1] * pi at a periodic step
AddLoss(l, c) ==
  [tensor |-> TRUE,
   v |-> l.v + c.mse * Mu + c.ce * Tau + (IF c.periodic THEN c.per * Pi ELSE 0)]

\* if from_past: the step from the last row of the batch before to row 0
SeamStep ==
  /\ pc = "seam"
  /\ mismatch' = Neq(y[1], from_past.y)
  /\ compute_loss("seam", from_past.x, x[1], from_past.y, mode = "MatchNet", mismatch')
  /\ loss' = AddLoss(loss, call')
  /\ steps' = steps + 1
  /\ pc' = LoopTop(Len(x), 0)
  /\ UNCHANGED <<err, epoch, param_groups, rows, more, batch_nb, x, y, from_past, t,
                 x_hat_data, grads, nb_updates, report, trace, val_loss>>
  /\ UNCHANGED cfgvars /\ UNCHANGED uvars

\* for t in range(0, min(args.big_t, x.size(0)) - 1): the step from row t to t + 1
InteriorStep ==
  /\ pc = "interior"
  /\ mismatch' = Neq(y[t + 2], y[t + 1])
  /\ compute_loss("interior", x[t + 1], x[t + 2], y[t + 1],
                  mode = "TempoNet" /\ t = Min(big_t, Len(x)) - 2, mismatch')
  /\ loss' = AddLoss(loss, call')
  /\ x_hat_data' = call'.x_hat
  /\ steps' = steps + 1
  /\ t' = t + 1
  /\ pc' = LoopTop(Len(x), t + 1)
  /\ UNCHANGED <<err, epoch, param_groups, rows, more, batch_nb, x, y, from_past,
                 grads, nb_updates, report, trace, val_loss>>
  /\ UNCHANGED cfgvars /\ UNCHANGED uvars

\* model.zero_grad()
ZeroGrad ==
  /\ pc = "zero_grad"
  /\ grads' = "zero"
  /\ pc' = "backward"
  /\ UNCHANGED <<err, epoch, param_groups, rows, more, batch_nb, x, y, from_past, state,
                 previous_mismatch, mismatch, t, total_loss, loss, x_hat_data, call,
                 steps, nb_updates, report, trace, val_loss>>
  /\ UNCHANGED cfgvars /\ UNCHANGED uvars

\* loss.backward(): the int 0 has no backward
Backward ==
  /\ pc = "backward"
  /\ IF loss.tensor
     THEN /\ grads' = "fresh" /\ pc' = "step" /\ err' = err
     ELSE /\ grads' = grads /\ pc' = "error" /\ err' = "AttributeError"
  /\ UNCHANGED <<epoch, param_groups, rows, more, batch_nb, x, y, from_past, state,
                 previous_mismatch, mismatch, t, total_loss, loss, x_hat_data, call,
                 steps, nb_updates, report, trace, val_loss>>
  /\ UNCHANGED cfgvars /\ UNCHANGED uvars

\* optimiser.step()
OptimiserStep ==
  /\ pc = "step"
  /\ nb_updates' = nb_updates + 1
  /\ grads' = "stale"
  /\ pc' = "end_batch"
  /\ UNCHANGED <<err, epoch, param_groups, rows, more, batch_nb, x, y, from_past, state,
                 previous_mismatch, mismatch, t, total_loss, loss, x_hat_data, call,
                 steps, report, trace, val_loss>>
  /\ UNCHANGED cfgvars /\ UNCHANGED uvars

\* the report of the logging interval: the normalised totals
TrainReport(tl) ==
  [set |-> TRUE,
   mse |-> Frac(tl.mse, log_interval * big_t),
   rpl |-> Frac(tl.rpl, log_interval * big_t),
   per_ce |-> Frac(tl.per_ce, log_interval),
   ce |-> IF tl.ce_count # 0 THEN Frac(tl.ce, tl.ce_count) ELSE Frac(tl.ce, 1),
   ce_count |-> tl.ce_count]

\* the first row saved for the last
SaveSeam_First == [set |-> TRUE, x |-> x[1], y |-> y[1]]

\* from_past = x[-1], y[-1]
SaveSeam == [set |-> TRUE, x |-> x[Len(x)], y |-> y[Len(y)]]

\* save last column for future, then the report every log_interval batches
EndBatch ==
  /\ pc = "end_batch"
  /\ from_past' = SaveSeam
  /\ IF (batch_nb + 1) % log_interval = 0
     THEN /\ report' = TrainReport(total_loss)
          /\ total_loss' = ZeroTotal
     ELSE UNCHANGED <<report, total_loss>>
  /\ pc' = "pull"
  /\ UNCHANGED <<err, epoch, param_groups, rows, more, batch_nb, x, y, state,
                 previous_mismatch, mismatch, t, loss, x_hat_data, call, steps, grads,
                 nb_updates, trace, val_loss>>
  /\ UNCHANGED cfgvars /\ UNCHANGED uvars

\* the loader is exhausted: train() returns and its locals are gone
TrainReturn ==
  /\ pc = "pull"
  /\ batch_nb >= 0
  /\ rows' = 0 /\ more' = TRUE /\ batch_nb' = -1
  /\ x' = <<>> /\ y' = <<>>
  /\ from_past' = NoSeam
  /\ state' = None
  /\ previous_mismatch' = Ones /\ mismatch' = Zeros
  /\ t' = 0
  /\ total_loss' = ZeroTotal
  /\ loss' = IntZero
  /\ x_hat_data' = Zeros
  /\ call' = NoCall
  /\ steps' = 0
  /\ report' = NoReport
  /\ pc' = "validate"
  /\ UNCHANGED <<err, epoch, param_groups, grads, nb_updates, trace, val_loss>>
  /\ UNCHANGED cfgvars /\ UNCHANGED uvars

\* validate(): the totals, the first batch, previous_mismatch, state
ValidateStart ==
  /\ pc = "validate"
  /\ total_loss' = ZeroTotal
  /\ \E ys \in LabelRows :
       /\ x' = <<FrameOf(0)>>
       /\ y' = <<ys>>
  /\ rows' = 1 /\ more' = TRUE /\ batch_nb' = 0
  /\ previous_mismatch' = Ones
  /\ state' = None
  /\ steps' = 0
  /\ trace' = <<>>
  /\ pc' = "val_loop"
  /\ UNCHANGED <<err, epoch, param_groups, from_past, mismatch, t, loss, x_hat_data,
                 call, grads, nb_updates, report, val_loss>>
  /\ UNCHANGED cfgvars /\ UNCHANGED uvars

\* the cadence counted from the first step: steps 1, T + 1, 2T + 1, ...
ValPeriodic_FromFirst(nb) == (nb - 1) % big_t = 0

\* if batch_nb % args.big_t == 0, on the loop's own batch_nb
ValPeriodic(nb) == nb % big_t = 0

\* for batch_nb, (next_x, next_y) in batches: one step on the row in hand
ValidateStep ==
  /\ pc = "val_loop"
  /\ rows < MaxVal
  /\ \E ys \in LabelRows : \E raw_x_hat \in PredFrames : \E d \in FreshData :
       LET next_x == FrameOf(rows)
           mm == Neq(ys, y[1])
           periodic == ValPeriodic(batch_nb + 1)
       IN
       \E lf \in (IF any(mm) THEN LossVals ELSE {0}) :
       \E lp \in (IF periodic THEN LossVals ELSE {0}) :
         LET raw_state == FreshState(d, FALSE)
             reset == ByteAdd(mm, previous_mismatch)
             x_hat == SelectiveMatch(raw_x_hat, next_x, reset)
             mse_loss_ == MSE(x_hat, next_x)
             ce == SelectiveCrossEntropy(mm, total_loss.ce_count, lf)
             rpl == MSE(x_hat, x[1])
         IN
         /\ mismatch' = mm
         /\ state' = ForwardMask(raw_state, mm)
         /\ previous_mismatch' = mm
         /\ total_loss' = [mse |-> total_loss.mse + mse_loss_,
                           ce |-> total_loss.ce + ce.ret,
                           ce_count |-> ce.ce_count,
                           per_ce |-> total_loss.per_ce + lp,
                           rpl |-> total_loss.rpl + rpl]
         /\ call' = [kind |-> "validate", x_ |-> x[1], next_x |-> next_x, y_ |-> y[1],
                     periodic |-> periodic, mismatch |-> mm, reset |-> reset,
                     state_in |-> state, raw_state |-> raw_state,
                     raw_x_hat |-> raw_x_hat, x_hat |-> x_hat,
                     mse |-> mse_loss_, ce |-> ce.ret, per |-> lp, rpl |-> rpl]
         /\ trace' = Append(trace, [selected |-> Cardinality(Nonzero(mm)), ce |-> ce.ret])
         /\ x' = <<next_x>>
         /\ y' = <<ys>>
  /\ rows' = rows + 1
  /\ batch_nb' = batch_nb + 1
  /\ steps' = steps + 1
  /\ UNCHANGED <<pc, err, epoch, param_groups, more, from_past, t, loss, x_hat_data,
                 grads, nb_updates, report, val_loss>>
  /\ UNCHANGED cfgvars /\ UNCHANGED uvars

\* the classification sum averaged over the batches, like the other sums
Normalise_ByLen(tl, len_val_loader) ==
  [set |-> TRUE,
   mse |-> Frac(tl.mse, len_val_loader),
   rpl |-> Frac(tl.rpl, len_val_loader),
   per_ce |-> Frac(tl.per_ce * big_t, len_val_loader),
   ce |-> Frac(tl.ce, len_val_loader),
   ce_count |-> tl.ce_count]

\* the normalised totals validate returns; len(val_loader) is the number of
\* batches the loader yields
Normalise(tl, len_val_loader) ==
  [set |-> TRUE,
   mse |-> Frac(tl.mse, len_val_loader),
   rpl |-> Frac(tl.rpl, len_val_loader),
   per_ce |-> Frac(tl.per_ce * big_t, len_val_loader),
   ce |-> Frac(tl.ce, tl.ce_count),
   ce_count |-> tl.ce_count]

\* the division made without a check of the count: a value is returned
ValidateReturn_Silent ==
  /\ pc = "val_loop"
  /\ pc' = "epoch_end" /\ err' = err
  /\ val_loss' = Normalise(total_loss, rows)
  /\ UNCHANGED <<epoch, param_groups, rows, more, batch_nb, x, y, from_past, state,
                 previous_mismatch, mismatch, t, total_loss, loss, x_hat_data, call,
                 steps, grads, nb_updates, report, trace>>
  /\ UNCHANGED cfgvars /\ UNCHANGED uvars

\* the validation loader is exhausted: average out and return
ValidateReturn ==
  /\ pc = "val_loop"
  /\ IF total_loss.ce_count = 0
     THEN /\ pc' = "error" /\ err' = "ZeroDivisionError" /\ val_loss' = val_loss
     ELSE /\ pc' = "epoch_end" /\ err' = err
          /\ val_loss' = Normalise(total_loss, rows)
  /\ UNCHANGED <<epoch, param_groups, rows, more, batch_nb, x, y, from_past, state,
                 previous_mismatch, mismatch, t, total_loss, loss, x_hat_data, call,
                 steps, grads, nb_updates, report, trace>>
  /\ UNCHANGED cfgvars /\ UNCHANGED uvars

\* the epoch's summary line and torch.save; val_loss is not read again
EndEpoch ==
  /\ pc = "epoch_end"
  /\ epoch' = epoch + 1
  /\ rows' = 0 /\ more' = TRUE /\ batch_nb' = -1
  /\ x' = <<>> /\ y' = <<>>
  /\ state' = None
  /\ previous_mismatch' = Ones /\ mismatch' = Zeros
  /\ total_loss' = ZeroTotal
  /\ call' = NoCall
  /\ steps' = 0
  /\ trace' = <<>>
  /\ val_loss' = NoReport
  /\ pc' = "epoch"
  /\ UNCHANGED <<err, param_groups, from_past, t, loss, x_hat_data, grads, nb_updates,
                 report>>
  /\ UNCHANGED cfgvars /\ UNCHANGED uvars

Next ==
  \/ StartEpoch
  \/ PullBatch
  \/ SeamStep
  \/ InteriorStep
  \/ ZeroGrad
  \/ Backward
  \/ OptimiserStep
  \/ EndBatch
  \/ TrainReturn
  \/ ValidateStart
  \/ ValidateStep
  \/ ValidateReturn
  \/ EndEpoch

Spec == Init /\ [][Next]_vars
SpecScenario == InitScenario /\ [][Next]_vars
SpecSchedule == InitSchedule /\ [][Next]_vars
SpecEpochs == InitEpochs /\ [][Next]_vars

\* ================================================================ claims

\* what forward masking with the flags new makes of the layer list before
MaskedList(after, before, new) ==
  /\ Len(after) = Len(before)
  /\ \A i \in 1 .. Len(before) : \A l \in Lanes :
       after[i].data[l] = IF new[l] # 0 THEN 0 ELSE before[i].data[l]

\* C1: after selective_zero(s, new, forward=True), on a flat store and on a
\* pair, every layer tensor of the store (both lists of a pair) holds zero in
\* each lane whose flag is true and its old value in each other lane.
C1_ForwardMaskLanes ==
  (u_op.name = "selective_zero" /\ u_op.done /\ u_op.forward) =>
    /\ u_op.out_s.kind = u_op.s.kind
    /\ MaskedList(u_op.out_s.a, u_op.s.a, u_op.new)
    /\ MaskedList(u_op.out_s.b, u_op.s.b, u_op.new)

\* a pair whose lanes all hold 1 masked at lane 1 alone: lane 1 is zero in
\* both lists, lane 0 still holds 1
C1_Witness ==
  /\ u_op.name = "selective_zero" /\ u_op.done /\ u_op.forward
  /\ u_op.s.kind = "pair"
  /\ u_op.new = [l \in Lanes |-> IF l = 1 THEN 1 ELSE 0]
  /\ u_op.s.a[1].data = Ones /\ u_op.s.b[1].data = Ones
  /\ u_op.out_s.a[1].data = [l \in Lanes |-> IF l = 1 THEN 0 ELSE 1]
  /\ u_op.out_s.b[1].data = [l \in Lanes |-> IF l = 1 THEN 0 ELSE 1]

\* C2: with no true entry in the mismatch vector, selective_zero (forward and
\* backward) returns the store as it was, no hook registered on any tensor,
\* and selective_cross_entropy returns zero and leaves the running
\* classification sum and the decision count as they were.
C2_NoMismatchNoOp ==
  [][/\ (u_op.name = "selective_zero" /\ ~u_op.done /\ u_op'.done /\ ~any(u_op.new))
          => u_op'.out_s = u_op.s
     /\ (u_op.name = "selective_cross_entropy" /\ u_calls'.n = u_calls.n + 1
           /\ ~any(u_op'.new))
          => (u_op'.ret = 0 /\ u_total' = u_total)]_vars

\* a call of selective_cross_entropy with no mismatch, made when the totals
\* already hold two decisions
C2_Witness ==
  /\ u_op.name = "selective_cross_entropy" /\ u_op.done
  /\ ~any(u_op.new)
  /\ u_calls.n = 3
  /\ u_total.ce_count = 2 /\ u_total.ce > 0

\* C3: since the totals were reset, ce_count is the sum over the calls of
\* selective_cross_entropy of the number of true entries of each call's
\* mismatch vector, and every call adds exactly that number.
C3_CountIsSelected ==
  [][/\ u_total'.ce_count = u_calls'.selected
     /\ u_calls'.n = u_calls.n + 1
          => u_total'.ce_count = u_total.ce_count + Cardinality(Nonzero(u_op'.new))]_vars

\* three calls selecting 0, 1 and then 2 lanes: the count is 3
C3_Witness ==
  /\ u_calls.n = 3
  /\ u_total.ce_count = 3
  /\ u_op.new = Ones

\* C4: after selective_match(x_hat, x, new) every flagged lane of x_hat holds
\* the lane of x and every other lane what it held; with no lane flagged
\* x_hat is as it was, with every lane flagged it is x.
C4_MatchLanes ==
  (u_op.name = "selective_match" /\ u_op.done) =>
    /\ \A l \in Lanes :
         u_op.out_x[l] = IF u_op.new[l] # 0 THEN u_op.x[l] ELSE u_op.x_hat[l]
    /\ (\A l \in Lanes : u_op.new[l] = 0) => u_op.out_x = u_op.x_hat
    /\ (\A l \in Lanes : u_op.new[l] # 0) => u_op.out_x = u_op.x

\* lane 1 alone flagged (by the current and the previous mismatch): it takes
\* the true frame, lane 0 keeps the prediction
C4_Witness ==
  /\ u_op.name = "selective_match" /\ u_op.done
  /\ u_op.new = [l \in Lanes |-> IF l = 1 THEN 2 ELSE 0]
  /\ u_op.x_hat = Zeros
  /\ u_op.x = [l \in Lanes |-> 2]
  /\ u_op.out_x = [l \in Lanes |-> IF l = 1 THEN 2 ELSE 0]

\* a row of the scenario's two lanes
Row(v0, v1) == [l \in Lanes |-> IF l = 0 THEN v0 ELSE v1]

\* the first physical batch of an epoch, T = 3, labels [[1,1],[1,2],[1,2]]
ScenarioBatch ==
  /\ batch_nb = 0 /\ big_t = 3
  /\ y = <<Row(1, 1), Row(1, 2), Row(1, 2)>>

\* lane 1 of every layer zero, lane 0 as in the layer list raw
Lane1Zeroed(after, raw) ==
  /\ Len(after) = Len(raw)
  /\ \A i \in 1 .. Len(raw) :
       after[i].data = [l \in Lanes |-> IF l = 1 THEN 0 ELSE raw[i].data[l]]

\* C5: every interior step t adds to ce_count the number of lanes with
\* labels[t+1] != labels[t].  In the scenario the step 0 -> 1 has mismatch
\* [false, true], hands on a state with lane 1 zeroed and lane 0 as the
\* predictor produced it, overwrites lane 1 of the predicted frame with the
\* true frame and adds exactly 1 to ce_count; the step 1 -> 2 has mismatch
\* [false, false], receives that state, masks nothing (no lane zeroed, no
\* hook registered) and leaves the classification sum and ce_count alone.
C5_ScenarioSteps ==
  [][pc = "interior" =>
       /\ total_loss'.ce_count =
            total_loss.ce_count + Cardinality({l \in Lanes : y[t + 2][l] # y[t + 1][l]})
       /\ (ScenarioBatch /\ t = 0) =>
            /\ mismatch' = Row(0, 1)
            /\ state'.kind = arch
            /\ Lane1Zeroed(state'.a, call'.raw_state.a)
            /\ Lane1Zeroed(state'.b, call'.raw_state.b)
            /\ call'.x_hat[1] = x[2][1]
            /\ total_loss'.ce_count = total_loss.ce_count + 1
       /\ (ScenarioBatch /\ t = 1) =>
            /\ mismatch' = Row(0, 0)
            /\ \A i \in 1 .. Len(state.a) : call'.state_in.a[i].data[1] = 0
            /\ call'.state_in = state
            /\ state' = call'.raw_state
            /\ call'.x_hat[1] = x[3][1]
            /\ total_loss'.ce = total_loss.ce
            /\ total_loss'.ce_count = total_loss.ce_count]_vars

\* the scenario after its step 0 -> 1: lane 1 of the state is zero, lane 0
\* is not, lane 1 of the prediction is the true frame, one decision counted
C5_Witness ==
  /\ ScenarioBatch
  /\ pc = "interior" /\ t = 1 /\ call.kind = "interior"
  /\ mismatch = Row(0, 1)
  /\ state.a[1].data = Row(1, 0)
  /\ call.x_hat[1] = x[2][1]
  /\ total_loss.ce_count = 1

\* C6: the seam step of a batch feeds the predictor the last frame of the
\* batch before, with this batch's frame 0 as target and the mismatch of
\* this batch's label row 0 against the last label row of the batch before;
\* with the two rows equal in every lane it adds its reconstruction loss to
\* the running reconstruction sum and to the batch loss, adds nothing to
\* ce_count and masks no lane of the state.
C6_SeamStep ==
  [][/\ pc = "end_batch" =>
          from_past' = [set |-> TRUE, x |-> FrameOf(rows - 1), y |-> y[Len(y)]]
     /\ pc = "seam" =>
          /\ from_past.x = FrameOf(rows - Len(x) - 1)
          /\ call'.x_ = from_past.x
          /\ call'.y_ = from_past.y
          /\ call'.next_x = FrameOf(rows - Len(x))
          /\ call'.next_x = x[1]
          /\ mismatch' = [l \in Lanes |-> IF y[1][l] # from_past.y[l] THEN 1 ELSE 0]
          /\ call'.mismatch = mismatch'
          /\ (y[1] = from_past.y) =>
               /\ total_loss'.mse = total_loss.mse + call'.mse
               /\ loss'.tensor
               /\ loss'.v = loss.v + Mu * call'.mse
                                   + (IF mode = "MatchNet" THEN Pi * call'.per ELSE 0)
               /\ total_loss'.ce_count = total_loss.ce_count
               /\ total_loss'.ce = total_loss.ce
               /\ state' = call'.raw_state
               /\ call'.state_in = state]_vars

\* a seam step between two batches whose facing label rows are equal: its
\* reconstruction loss is in the sum and in the batch loss, no decision counted
C6_Witness ==
  /\ call.kind = "seam" /\ batch_nb = 1 /\ steps = 1
  /\ call.mismatch = Zeros
  /\ call.mse > 0
  /\ total_loss.mse = call.mse
  /\ loss.tensor /\ loss.v >= Mu * call.mse
  /\ total_loss.ce_count = 0

\* C7: every batch pulled from the training loader makes all its predictor
\* steps, then zeroes the gradients, backpropagates the batch loss and takes
\* exactly one optimiser step, before its logging and before the next batch
\* is pulled; none ends in an error.
C7_EveryBatchSteps ==
  /\ err # "AttributeError"
  /\ pc = "backward" =>
       /\ loss.tensor
       /\ grads = "zero"
       /\ steps = (IF from_past.set THEN 1 ELSE 0) + Len(x) - 1
       /\ nb_updates = batch_nb
  /\ pc = "step" => (grads = "fresh" /\ nb_updates = batch_nb)
  /\ pc = "end_batch" => (nb_updates = batch_nb + 1 /\ ~report.set)
  /\ pc = "pull" => nb_updates = batch_nb + 1

\* the rate r is the fraction n / d
RateIs(r, n, d) == r.num * d = n * r.den

\* the rates of the example: 0.1 and decay (10, 2)
ExampleRate(k) ==
  IF k \in {0, 1} THEN Frac(1, 10)
  ELSE IF k \in {2, 3} THEN Frac(1, 100)
  ELSE Frac(1, 1000)

\* C8: with a decay (D, E) configured, from the start of epoch k to its end
\* every parameter group has the initial rate divided by D to the power
\* k // E (0.1, 0.1, 0.01, 0.01, 0.001, 0.001 for 0.1 and (10, 2)); the rate
\* does not change within an epoch and never increases.
C8_Schedule ==
  [][/\ pc' # "epoch" =>
          \A g \in 1 .. NGroups :
            /\ RateIs(param_groups'[g], LrNum, LrDen * Pow(D, epoch' \div E))
            /\ epoch' <= 5 =>
                 RateIs(param_groups'[g], ExampleRate(epoch').num, ExampleRate(epoch').den)
     /\ pc # "epoch" => param_groups' = param_groups
     /\ \A g \in 1 .. NGroups :
          param_groups'[g].num * param_groups[g].den
            <= param_groups[g].num * param_groups'[g].den]_vars

\* epoch 4 under way at the rate 0.001
C8_Witness ==
  /\ epoch = 4 /\ pc = "interior"
  /\ \A g \in 1 .. NGroups : param_groups[g] = Frac(1, 1000)

RECURSIVE SumCe(_)
SumCe(tr) == IF tr = <<>> THEN 0 ELSE tr[1].ce + SumCe(Tail(tr))
RECURSIVE SumSelected(_)
SumSelected(tr) == IF tr = <<>> THEN 0 ELSE tr[1].selected + SumSelected(Tail(tr))

\* C9: the classification value validate returns is the sum of the selective
\* losses of the steps of the stream divided by the number of mismatched
\* lanes of the whole stream; with one boundary in the stream, at step k, it
\* is that step's selective loss divided by 1.
C9_ValidatorClassification ==
  pc = "epoch_end" =>
    /\ val_loss.ce.den = SumSelected(trace)
    /\ val_loss.ce.num = SumCe(trace)
    /\ \A k \in 1 .. Len(trace) :
         (/\ trace[k].selected = 1
          /\ \A j \in 1 .. Len(trace) : j # k => trace[j].selected = 0)
           => val_loss.ce = Frac(trace[k].ce, 1)

\* a stream of three rows whose one boundary is at the second step, with
\* selective loss 2: validate returns 2 / 1
C9_Witness ==
  /\ pc = "epoch_end"
  /\ Len(trace) = 2
  /\ trace[1].selected = 0
  /\ trace[2] = [selected |-> 1, ce |-> 2]
  /\ val_loss.ce = Frac(2, 1)

\* C10: the reconstruction and replication values validate returns are their
\* sums divided by the number of predictor steps of the run, the periodic
\* value its sum divided by (that number / T).
C10_DividedBySteps ==
  pc = "epoch_end" =>
    /\ val_loss.mse.num * steps = total_loss.mse * val_loss.mse.den
    /\ val_loss.rpl.num * steps = total_loss.rpl * val_loss.rpl.den
    /\ val_loss.per_ce.num * steps = total_loss.per_ce * big_t * val_loss.per_ce.den

\* C11: a validation stream in which no lane's label changes between two
\* consecutive rows (ce_count is zero when the loader is exhausted) does not
\* make validate return: the run ends in a ZeroDivisionError and no
\* normalised aggregate, no value and no NaN, is handed back; whenever
\* validate does return, at least one lane changed in the stream.
C11_DegenerateValidation ==
  [][/\ (pc = "val_loop" /\ pc' # "val_loop" /\ SumSelected(trace) = 0) =>
          /\ total_loss.ce_count = 0
          /\ pc' = "error" /\ err' = "ZeroDivisionError"
          /\ ~val_loss'.set
     /\ val_loss'.set => (SumSelected(trace') > 0 /\ val_loss'.ce.den > 0)]_vars

\* a stream of three rows with the same labels in every lane has ended in
\* the division by zero
C11_Witness ==
  /\ pc = "error" /\ err = "ZeroDivisionError"
  /\ Len(trace) = 2 /\ SumSelected(trace) = 0
  /\ total_loss.ce_count = 0
  /\ ~val_loss.set

\* the values of a layer list, tensor by tensor
DataOf(layers) == [i \in 1 .. Len(layers) |-> layers[i].data]

\* C12: repackage_state keeps the values of every tensor and the shape of
\* the store (a flat list stays a flat list of the same length, a pair stays
\* a pair of lists of the same lengths), hands back None for None, hands
\* back only tensors without history, and applied again to its own result
\* changes nothing.
C12_Detach ==
  (u_op.name = "repackage_state" /\ u_op.done) =>
    /\ u_op.out_s.kind = u_op.s.kind
    /\ (u_op.s = None) <=> (u_op.out_s = None)
    /\ Len(u_op.out_s.a) = Len(u_op.s.a) /\ Len(u_op.out_s.b) = Len(u_op.s.b)
    /\ DataOf(u_op.out_s.a) = DataOf(u_op.s.a)
    /\ DataOf(u_op.out_s.b) = DataOf(u_op.s.b)
    /\ \A i \in 1 .. Len(u_op.out_s.a) : ~u_op.out_s.a[i].hist
    /\ \A i \in 1 .. Len(u_op.out_s.b) : ~u_op.out_s.b[i].hist
    /\ u_op.out_s = repackage_state(u_op.s)
    /\ repackage_state(u_op.out_s) = u_op.out_s

\* a pair of lists with history and a hook, detached twice
C12_Witness ==
  /\ u_op.name = "repackage_state" /\ u_op.done /\ u_calls.n = 2
  /\ u_op.s.kind = "pair"
  /\ u_op.s.a[1].hist /\ u_op.s.b[1].hist
  /\ u_op.s.a[1].hooks # <<>>
  /\ u_op.s.b[1].data = Row(1, 0)
  /\ u_op.out_s.b[1].data = Row(1, 0)
  /\ ~u_op.out_s.b[1].hist

\* C13: load_state_dict fails with a KeyError naming the key for every
\* checkpoint key (prefix stripped) absent from the live model and for every
\* live key absent from the checkpoint, unless the key is under the
\* 'stabiliser' prefix: such a key never makes the load fail, and its value
\* is never copied into the live model.
C13_PartialLoad ==
  LET ck == CheckpointNames(u_op.state_dict)
      offending == {n \in (ck \ u_op.live) \cup (u_op.live \ ck) : ~IsStabiliser(n)}
  IN
  u_op.name = "load_state_dict" =>
    /\ \A n \in u_op.live : IsStabiliser(n) => u_op.own_state[n] = 0
    /\ u_op.at = "raised" => (u_op.named # {} /\ u_op.named \subseteq offending)
    /\ u_op.at = "returned" => offending = {}

\* a predictor step, of train or of validate, is being made
StepMade == steps' = steps + 1

\* no predictor step has been made yet in this epoch, or in this validation run
FirstStep == batch_nb = 0 /\ steps = 0

\* C14: at the first predictor step of a training epoch and of a validation
\* run previous_mismatch is all ones; at every later step, seam or interior,
\* also the first after a batch boundary, it is the mismatch of the step
\* made just before; and at every step the lanes of the predicted frame that
\* are overwritten with the true next frame are exactly those where the
\* current or the previous mismatch is set.
C14_PreviousMismatch ==
  [][StepMade =>
       /\ FirstStep => previous_mismatch = Ones
       /\ ~FirstStep => previous_mismatch = mismatch
       /\ call'.mismatch = mismatch'
       /\ previous_mismatch' = mismatch'
       /\ \A l \in Lanes :
            call'.x_hat[l] =
              IF mismatch'[l] = 1 \/ previous_mismatch[l] = 1
              THEN call'.next_x[l]
              ELSE call'.raw_x_hat[l]]_vars

\* a seam step with no mismatch of its own after a step that had one in
\* lane 1: lane 1 of the prediction is the true frame, lane 0 is not
C14_Witness ==
  /\ call.kind = "seam" /\ batch_nb = 1
  /\ call.mismatch = Row(0, 0)
  /\ call.reset = Row(0, 1)
  /\ call.x_hat[1] = x[1][1]
  /\ call.x_hat[0] = call.raw_x_hat[0]
  /\ call.x_hat[0] # x[1][0]

\* the index, in the epoch's stream of rows, of row 0 of the batch in hand
BatchBase == rows - Len(x)

\* C15: in a training epoch whose batches hold at most T rows, the triples
\* (input frame, target frame, input label) of the predictor steps are the
\* consecutive pairs of the concatenated batches, in order and once each: the
\* first batch makes no seam step and len - 1 interior steps, every later
\* batch one seam step, from the last row of the batch before to its row 0,
\* and then len - 1 interior steps.
C15_StreamCoverage ==
  [][/\ pc = "end_batch" =>
          from_past' = [set |-> TRUE, x |-> FrameOf(rows - 1), y |-> y[Len(y)]]
     /\ pc = "pull" /\ pc' \in {"seam", "interior", "zero_grad"} =>
          /\ Len(x') <= big_t
          /\ (pc' = "seam") <=> (batch_nb' > 0)
          /\ from_past.set <=> (batch_nb' > 0)
     /\ pc = "seam" =>
          /\ steps = 0 /\ t = 0
          /\ call'.x_ = FrameOf(BatchBase - 1)
          /\ call'.next_x = FrameOf(BatchBase)
          /\ call'.y_ = from_past.y
     /\ pc = "interior" =>
          /\ steps = t + (IF batch_nb > 0 THEN 1 ELSE 0)
          /\ call'.x_ = FrameOf(BatchBase + t)
          /\ call'.next_x = FrameOf(BatchBase + t + 1)
          /\ call'.y_ = y[t + 1]
          /\ t' = t + 1
     /\ pc' = "zero_grad" =>
          /\ t' = Len(x') - 1
          /\ steps' = Len(x') - 1 + (IF batch_nb' > 0 THEN 1 ELSE 0)]_vars

\* the second batch of two rows has made its seam step and its interior
\* step: the last pair used is (row 2, row 3)
C15_Witness ==
  /\ pc = "zero_grad" /\ batch_nb = 1 /\ Len(x) = 2
  /\ steps = 2
  /\ call.x_ = FrameOf(2) /\ call.next_x = FrameOf(3)
  /\ call.y_ = y[1]

\* no tensor of the store carries history or a gradient hook
NoHistory(s) ==
  /\ \A i \in 1 .. Len(s.a) : ~s.a[i].hist /\ s.a[i].hooks = <<>>
  /\ \A i \in 1 .. Len(s.b) : ~s.b[i].hist /\ s.b[i].hooks = <<>>

\* where train() stands between pulling a batch and pulling the next
InBatch == {"seam", "interior", "zero_grad", "backward", "step", "end_batch"}

\* the terms one step adds to the batch loss
StepTerms(c) == Mu * c.mse + Tau * c.ce + (IF c.periodic THEN Pi * c.per ELSE 0)

\* C16: the carried state is detached once per batch, when the batch is
\* pulled and before its first predictor step, and nowhere else; the steps
\* made since the last detach are never more than T; the batch loss starts
\* from 0 at the detach and holds only the terms of the batch's own steps
\* when it is backpropagated.
C16_BoundedDepth ==
  [][/\ (pc = "pull" /\ pc' \in InBatch) =>
          /\ NoHistory(state')
          /\ state'.kind = state.kind
          /\ steps' = 0
          /\ loss' = IntZero
     /\ pc \in {"seam", "interior"} =>
          /\ steps = 0 => (NoHistory(state) /\ NoHistory(call'.state_in))
          /\ steps' = steps + 1
          /\ loss'.v = loss.v + StepTerms(call')
          /\ \A i \in 1 .. Len(state'.a) : state'.a[i].hist
     /\ pc \in {"zero_grad", "backward", "step", "end_batch"} =>
          (state' = state /\ loss' = loss /\ steps' = steps)
     /\ pc' \in InBatch => steps' <= big_t]_vars

\* the second batch, T = 2, has made T steps since its detach (its seam step
\* and one interior step) and is about to backpropagate their loss
C16_Witness ==
  /\ pc = "backward" /\ batch_nb = 1
  /\ big_t = 2 /\ steps = big_t
  /\ loss.tensor /\ loss.v > 0
  /\ state.a[1].hist

\* C17: the state is None at the first predictor step of every training
\* epoch and of every validation run; within an epoch or a validation run,
\* once a step has produced a state, every later step receives the state the
\* step before it returned (masked, and in training detached at the batch
\* boundary: same shape, same values), never None and never a new one; the
\* state of training does not reach validation or the next epoch.
C17_StateLifetime ==
  [][/\ StepMade =>
          /\ FirstStep => (state = None /\ call'.state_in = None)
          /\ ~FirstStep =>
               /\ Truthy(state)
               /\ call'.state_in.kind = state.kind
               /\ DataOf(call'.state_in.a) = DataOf(state.a)
               /\ DataOf(call'.state_in.b) = DataOf(state.b)
          /\ Truthy(state')
          /\ state'.kind = call'.raw_state.kind
     /\ (~StepMade /\ pc \in InBatch \cup {"val_loop"}) => state' = state
     /\ (pc = "pull" /\ pc' \in InBatch) =>
          /\ state'.kind = state.kind
          /\ DataOf(state'.a) = DataOf(state.a)
          /\ DataOf(state'.b) = DataOf(state.b)
     /\ (pc = "validate" /\ pc' = "val_loop") => state' = None
     /\ (pc = "epoch" /\ pc' # "epoch") => state' = None]_vars

\* the second epoch has made its first step, from None, and holds a state
C17_Witness ==
  /\ epoch = 1 /\ batch_nb = 0 /\ steps = 1
  /\ call.kind = "interior"
  /\ call.state_in = None
  /\ Truthy(state)

\* every layer of the list has one gradient hook, zeroing the lanes b
HookedOn(layers, b) == \A i \in 1 .. Len(layers) : layers[i].hooks = <<b>>

\* every layer of the list has the lanes b zero and the others as in raw
ZeroedOn(layers, raw, b) ==
  /\ Len(layers) = Len(raw)
  /\ \A i \in 1 .. Len(raw) :
       layers[i].data = [l \in Lanes |-> IF l \in b THEN 0 ELSE raw[i].data[l]]

\* C18: whenever a seam step runs, in MatchNet mode and in TempoNet mode,
\* the carried state is backward-masked with the seam mismatch (a gradient
\* hook zeroing the mismatched lanes on every layer) before the predictor
\* reuses it, and the state the predictor returns is forward-masked with the
\* same mismatch.
C18_SeamMasking ==
  [][(pc = "seam" /\ any(mismatch')) =>
       /\ HookedOn(call'.state_in.a, Nonzero(mismatch'))
       /\ HookedOn(call'.state_in.b, Nonzero(mismatch'))
       /\ ZeroedOn(state'.a, call'.raw_state.a, Nonzero(mismatch'))
       /\ ZeroedOn(state'.b, call'.raw_state.b, Nonzero(mismatch'))]_vars

PeriodicTermsOfBatch ==
  IF mode = "MatchNet"
  THEN (IF batch_nb > 0 THEN 1 ELSE 0)
  ELSE (IF Len(x) >= 2 THEN 1 ELSE 0)

\* C21: at every logging point of an epoch, the first included, the running
\* reconstruction and replication sums are divided by the number of
\* predictor steps added to them since the last reset and the running
\* periodic sum by the number of periodic terms added since the last reset;
\* after the report the five running totals are zero.  (The logging interval
\* is one batch: the window of a report is the batch in hand.)
C21_ReportDivisors ==
  [][(pc = "end_batch" /\ (batch_nb + 1) % log_interval = 0) =>
       /\ report'.set
       /\ report'.mse = Frac(total_loss.mse, steps)
       /\ report'.rpl = Frac(total_loss.rpl, steps)
       /\ report'.per_ce = Frac(total_loss.per_ce, PeriodicTermsOfBatch)
       /\ total_loss' = ZeroTotal]_vars

====
